---- MODULE Spec2Model ----
(***************************************************************************)
(* A model of src/src/indexer.js: the sanitizer (cleanEntry), the          *)
(* paginated enumerator (_getAllNames / _getAllSubdomains), the batched    *)
(* resolver (fetchName / fetchNames), the persisting stage of              *)
(* processAllNames, the index builder (createSearchIndex) and whole runs   *)
(* of processAllNames and dumpAllNamesFile through _fetchAllNames.         *)
(*                                                                         *)
(* Strings whose characters the code inspects (object keys, names) are     *)
(* sequences of one-character strings: "a.id" is <<"a", ".", "i", "d">>.   *)
(***************************************************************************)
EXTENDS Integers, Sequences, FiniteSets, TLC

VARIABLES
    \* ---- sanitizer (cleanEntry) ----
    entry,        \* the record handed to cleanEntry
    cleaned,      \* cleanEntry(entry)
    twice,        \* cleanEntry(cleanEntry(entry))
    cleanPc,      \* "off" | "input" | "cleaned" | "twice"
    \* ---- paginated enumerator (_getAllNames, _getAllSubdomains) ----
    source,       \* per kind: the pages the directory service serves
    pagesToFetch, \* the page cap (0: none)
    enumPc,       \* per kind: "idle" | "fetching" | "done" | "failed"
    page,         \* per kind: index of the page being fetched
    priorNames,   \* per kind: the names collected so far
    requested,    \* per kind: the page indexes requested so far, in order
    settled,      \* per kind: the page indexes whose fetch has ended, in order
    \* ---- batched resolver (fetchName, fetchNames) ----
    names,        \* fetchNames argument: the names to resolve
    batchSize,    \* fetchNames argument
    fetchPc,      \* "off" | "idle" | "batch" (await, line 132) | "timer" (await,
                  \* line 143) | "final" (await, line 151) | "done"
    ix,           \* names taken by the loop so far
    batch,        \* the names of the current batch
    lookup,       \* per name occurrence: the state of its lookup
    fetched,      \* per name occurrence: what fetchName returned
    profiles,     \* the entries collected so far
    errorCount,   \* the lookups counted as failed so far
    delays,       \* promiseTimer calls made so far
    \* ---- processAllNames ----
    fileProfiles, \* the entries in the file options.useFiles.profiles
    procPc,       \* "off" | "idle" | "fetching" | "fetched" | "profileSaves" | "namespaceSaves" |
                  \* "done" | "failed"
    profileSaves, \* the profileCollection.save calls made, each with its state
    namespaceSaves, \* the namespaceCollection.save calls made, each with its state
    skipped,      \* positions of the entries whose record construction threw
    \* ---- a run of processAllNames or dumpAllNamesFile ----
    mode,         \* "off" | "files" (options.useFiles) | "live" | "dump"
    runPc,        \* _fetchAllNames: "off" | "enumerating" | "resolving" |
                  \* "resolved" | "failed"
    filesWritten, \* fs.writeFileSync calls completed
    \* ---- createSearchIndex ----
    nsRecords,    \* the documents namespaceCollection.find() yields, in order
    idxPc,        \* "off" | "scanning" | "peopleSave" | "twitterSave" |
                  \* "usernameSave" | "done" | "failed"
    scanned,      \* documents the forEach callback has been run on
    peopleNames,  \* the accumulators of lines 258-261
    twitterHandles,
    usernames,
    errors,
    searchSaves,  \* the searchProfiles.save calls made, each with its state
    cacheSaves,   \* the cache save calls made, in order, each with its state
    indexRequests \* peopleCache.ensureIndex calls made

cleanVars == <<entry, cleaned, twice, cleanPc>>
enumVars  == <<source, pagesToFetch, enumPc, page, priorNames, requested, settled>>

fetchVars == <<names, batchSize, fetchPc, ix, batch, lookup, fetched, profiles,
               errorCount, delays>>

procVars == <<fileProfiles, procPc, profileSaves, namespaceSaves, skipped>>

runVars == <<mode, runPc, filesWritten>>

idxVars == <<nsRecords, idxPc, scanned, peopleNames, twitterHandles, usernames, errors,
             searchSaves, cacheSaves, indexRequests>>

vars == <<entry, cleaned, twice, cleanPc,
          source, pagesToFetch, enumPc, page, priorNames, requested, settled,
          names, batchSize, fetchPc, ix, batch, lookup, fetched, profiles,
          errorCount, delays,
          fileProfiles, procPc, profileSaves, namespaceSaves, skipped,
          mode, runPc, filesWritten,
          nsRecords, idxPc, scanned, peopleNames, twitterHandles, usernames, errors,
          searchSaves, cacheSaves, indexRequests>>

-----------------------------------------------------------------------------
(* JavaScript values.  An object is its list of own enumerable properties   *)
(* in Object.keys order (insertion order for non-index keys); a leaf is a   *)
(* number, boolean or string that the code only passes around.              *)

Undefined == [t |-> "undefined", v |-> 0, e |-> <<>>, s |-> <<>>]
Null      == [t |-> "null",      v |-> 0, e |-> <<>>, s |-> <<>>]
Leaf(n)   == [t |-> "leaf",      v |-> n, e |-> <<>>, s |-> <<>>]
Obj(es)   == [t |-> "object",    v |-> 0, e |-> es,   s |-> <<>>]
\* a string whose characters the code reads
Str(cs)   == [t |-> "string",    v |-> 0, e |-> <<>>, s |-> cs]

\* the sanitizer is not part of the run
CleanOff ==
    /\ entry = Undefined
    /\ cleaned = Undefined
    /\ twice = Undefined
    /\ cleanPc = "off"

\* fetchNames is not part of the run
FetchOff ==
    /\ names = <<>>
    /\ batchSize = 1
    /\ fetchPc = "off"
    /\ ix = 0
    /\ batch = <<>>
    /\ lookup = <<>>
    /\ fetched = <<>>
    /\ profiles = <<>>
    /\ errorCount = 0
    /\ delays = 0

\* processAllNames is not part of the run
ProcessOff ==
    /\ fileProfiles = <<>>
    /\ procPc = "off"
    /\ profileSaves = <<>>
    /\ namespaceSaves = <<>>
    /\ skipped = {}

\* neither _fetchAllNames nor dumpAllNamesFile is part of the run
RunOff ==
    /\ mode = "off"
    /\ runPc = "off"
    /\ filesWritten = 0

\* createSearchIndex is not part of the run
IndexOff ==
    /\ nsRecords = <<>>
    /\ idxPc = "off"
    /\ scanned = 0
    /\ peopleNames = <<>>
    /\ twitterHandles = <<>>
    /\ usernames = <<>>
    /\ errors = <<>>
    /\ searchSaves = <<>>
    /\ cacheSaves = <<>>
    /\ indexRequests = 0

\* Object.keys(entry)
ObjectKeys(es) == [i \in 1..Len(es) |-> es[i].k]

HasKey(es, key) == \E i \in 1..Len(es) : es[i].k = key

\* entry[key]
Get(es, key) ==
    IF HasKey(es, key)
    THEN es[CHOOSE i \in 1..Len(es) : es[i].k = key].val
    ELSE Undefined

\* entry[key] = value : an existing property keeps its place, a new one is appended
Put(es, key, value) ==
    IF HasKey(es, key)
    THEN [i \in 1..Len(es) |-> IF es[i].k = key THEN [k |-> key, val |-> value] ELSE es[i]]
    ELSE Append(es, [k |-> key, val |-> value])

\* delete entry[key]
Delete(es, key) == SelectSeq(es, LAMBDA p : p.k # key)

\* key.includes('.')
includesDot(key) == \E i \in 1..Len(key) : key[i] = "."

\* key.replace('.', '_') : without the g flag only the first '.' is replaced
replaceFirstDot(key) ==
    [i \in 1..Len(key) |->
        IF key[i] = "." /\ (\A j \in 1..(i - 1) : key[j] # ".") THEN "_" ELSE key[i]]

\* key.replace(/\./g, '_')
replaceDots(key) == [i \in 1..Len(key) |-> IF key[i] = "." THEN "_" ELSE key[i]]

\* key.startsWith('$')
startsWithSigil(key) == Len(key) > 0 /\ key[1] = "$"

\* '_' + key.slice(1)
underscoreSlice(key) == <<"_">> \o SubSeq(key, 2, Len(key))

RECURSIVE cleanEntry(_), cleanKeys(_, _)

\* the callback without line 87 (key = newKey): the sigil test reads the old key
cleanKeyStaleKey(es, key) ==
    LET value  == Get(es, key)
        cv     == IF value.t = "object" THEN cleanEntry(value) ELSE value
        e0     == IF value.t = "object" THEN Put(es, key, cv) ELSE es
        e1     == IF includesDot(key) THEN Delete(Put(e0, replaceDots(key), cv), key) ELSE e0
    IN  IF startsWithSigil(key)
        THEN Delete(Put(e1, underscoreSlice(key), cv), key)
        ELSE e1

\* The body of the forEach callback for one key of the Object.keys snapshot,
\* run against the current properties es of the object being rewritten.
cleanKey(es, key) ==
    LET value  == Get(es, key)
        \* cleanEntry(value) rewrites the nested object in place: the property
        \* that holds it sees the rewritten object
        cv     == IF value.t = "object" THEN cleanEntry(value) ELSE value
        e0     == IF value.t = "object" THEN Put(es, key, cv) ELSE es
        dotted == includesDot(key)
        newKey == replaceDots(key)
        e1     == IF dotted THEN Delete(Put(e0, newKey, cv), key) ELSE e0
        key1   == IF dotted THEN newKey ELSE key
        e2     == IF startsWithSigil(key1)
                  THEN Delete(Put(e1, underscoreSlice(key1), cv), key1)
                  ELSE e1
    IN  e2

\* Object.keys(entry).forEach(...) over the snapshot keys
cleanKeys(es, keys) ==
    IF keys = <<>> THEN es
    ELSE cleanKeys(cleanKey(es, Head(keys)), Tail(keys))

cleanEntry(ent) ==
    IF ent.t # "object" THEN ent
    ELSE Obj(cleanKeys(ent.e, ObjectKeys(ent.e)))

-----------------------------------------------------------------------------
(* Bounded inputs of the sanitizer.                                         *)

MaxKeys == 2            \* properties per object

\* '.' the separator, '$' the reserved sigil, '_' an ordinary character
KeyChars == {".", "$", "_"}

Keys == {<<c>> : c \in KeyChars} \cup {<<c, d>> : c \in KeyChars, d \in KeyChars}

\* lists of n distinct keys, in every order
KeyLists(n) == {ks \in [1..n -> Keys] : \A i, j \in 1..n : i # j => ks[i] # ks[j]}

\* nested values: null, the empty object, and every one-property object
NestedValues ==
    {Null, Obj(<<>>)} \cup {Obj(<<[k |-> key, val |-> Leaf(0)]>>) : key \in Keys}

\* an object with keys ks whose i-th value is the distinct leaf i, except
\* that position p (if p # 0) holds the nested value nv
Record(ks, p, nv) ==
    Obj([i \in 1..Len(ks) |-> [k |-> ks[i], val |-> IF i = p THEN nv ELSE Leaf(i)]])

\* value is one of the bounded input records
IsInputRecord(value) ==
    \E n \in 0..MaxKeys : \E ks \in KeyLists(n) : \E p \in 0..n :
        \E nv \in (IF p = 0 THEN {Null} ELSE NestedValues) :
            value = Record(ks, p, nv)

-----------------------------------------------------------------------------
(* The paginated enumerator.  _getAllNames and _getAllSubdomains are the    *)
(* same code against two endpoints; kind selects the endpoint.              *)

Kinds == {"names", "subdomains"}

NameA == <<"a", ".", "i", "d">>
NameB == <<"b">>
EnumNames == {NameA, NameB}

MaxPages   == 2         \* pages a directory holds before it serves empty pages only
MaxPageLen == 2         \* names on one page

SeqsUpTo(S, n) == UNION {[1..m -> S] : m \in 0..n}

\* a page may be empty in the middle of a directory; every page past the
\* last one is empty
Sources == SeqsUpTo(SeqsUpTo(EnumNames, MaxPageLen), MaxPages)

PageCaps == 0..(MaxPages + 1)

\* the response to /v1/names?page=p (or /v1/subdomains?page=p)
PageOf(src, p) == IF p + 1 <= Len(src) THEN src[p + 1] ELSE <<>>

\* the cap test written without the tests that make 0 mean "no cap"
capReachedNoZeroTest(p, cap) == p >= cap

\* the cap test with > for >=
capReachedOffByOne(p, cap) == cap # 0 /\ cap > 0 /\ p > cap

\* lines 19 and 44: pagesToFetch && pagesToFetch > 0 && page >= pagesToFetch
capReached(p, cap) == cap # 0 /\ cap > 0 /\ p >= cap

\* _getAllNames(p, prior, cap) up to its first suspension: the state of the
\* enumeration of one kind after the call
enterPage(p, prior, reqs, cap) ==
    IF capReached(p, cap)
    THEN [pc |-> "done", page |-> p, prior |-> prior, reqs |-> reqs]
    ELSE [pc |-> "fetching", page |-> p, prior |-> prior, reqs |-> Append(reqs, p)]

EnumOff ==
    /\ source = [k \in Kinds |-> <<>>]
    /\ pagesToFetch = 0
    /\ enumPc = [k \in Kinds |-> "off"]
    /\ page = [k \in Kinds |-> 0]
    /\ priorNames = [k \in Kinds |-> <<>>]
    /\ requested = [k \in Kinds |-> <<>>]
    /\ settled = [k \in Kinds |-> <<>>]

\* line 192: getAllNames(pagesToFetch) and getAllSubdomains(pagesToFetch)
\* are both called before either fetch completes
StartEnumeration ==
    /\ \A k \in Kinds : enumPc[k] = "idle"
    /\ LET st == enterPage(0, <<>>, <<>>, pagesToFetch)
       IN  /\ enumPc' = [k \in Kinds |-> st.pc]
           /\ page' = [k \in Kinds |-> st.page]
           /\ priorNames' = [k \in Kinds |-> st.prior]
           /\ requested' = [k \in Kinds |-> st.reqs]
    /\ UNCHANGED <<source, pagesToFetch, settled>>

RECURSIVE pushNew(_, _)
\* names.forEach(x => priorNames.includes(x) || priorNames.push(x))
pushNew(prior, pageNames) ==
    IF pageNames = <<>> THEN prior
    ELSE pushNew(IF \E i \in 1..Len(prior) : prior[i] = Head(pageNames)
                 THEN prior ELSE Append(prior, Head(pageNames)),
                 Tail(pageNames))

\* the continuation with a push that skips names already collected
onPageDedup(pageNames, p, prior, reqs, cap) ==
    IF Len(pageNames) > 0
    THEN enterPage(p + 1, pushNew(prior, pageNames), reqs, cap)
    ELSE [pc |-> "done", page |-> p, prior |-> prior, reqs |-> reqs]

\* the continuation when it asks for page + 2
onPageSkipsPage(pageNames, p, prior, reqs, cap) ==
    IF Len(pageNames) > 0
    THEN enterPage(p + 2, prior \o pageNames, reqs, cap)
    ELSE [pc |-> "done", page |-> p, prior |-> prior, reqs |-> reqs]

\* lines 29-37 / 54-62: the continuation run with the names of page p
onPage(pageNames, p, prior, reqs, cap) ==
    IF Len(pageNames) > 0
    THEN enterPage(p + 1, prior \o pageNames, reqs, cap)
    ELSE [pc |-> "done", page |-> p, prior |-> prior, reqs |-> reqs]

\* lines 27-37 / 52-62: the page arrives and the continuation runs
PageFetched(k) ==
    /\ enumPc[k] = "fetching"
    /\ LET st == onPage(PageOf(source[k], page[k]), page[k], priorNames[k],
                        requested[k], pagesToFetch)
       IN  /\ enumPc' = [enumPc EXCEPT ![k] = st.pc]
           /\ page' = [page EXCEPT ![k] = st.page]
           /\ priorNames' = [priorNames EXCEPT ![k] = st.prior]
           /\ requested' = [requested EXCEPT ![k] = st.reqs]
    /\ settled' = [settled EXCEPT ![k] = Append(settled[k], page[k])]
    /\ UNCHANGED <<source, pagesToFetch>>

\* lines 27-28 / 52-53: fetch or resp.json() rejects; nothing catches it
PageFailed(k) ==
    /\ enumPc[k] = "fetching"
    /\ enumPc' = [enumPc EXCEPT ![k] = "failed"]
    /\ settled' = [settled EXCEPT ![k] = Append(settled[k], page[k])]
    /\ UNCHANGED <<source, pagesToFetch, page, priorNames, requested>>

\* one kind's directory is arbitrary, the other's is empty
InitEnum ==
    /\ \E k \in Kinds : \E src \in Sources :
          source = [j \in Kinds |-> IF j = k THEN src ELSE <<>>]
    /\ pagesToFetch \in PageCaps
    /\ enumPc = [k \in Kinds |-> "idle"]
    /\ page = [k \in Kinds |-> 0]
    /\ priorNames = [k \in Kinds |-> <<>>]
    /\ requested = [k \in Kinds |-> <<>>]
    /\ settled = [k \in Kinds |-> <<>>]
    /\ CleanOff
    /\ FetchOff
    /\ ProcessOff
    /\ RunOff
    /\ IndexOff

NextEnum ==
    \/ StartEnumeration /\ UNCHANGED <<cleanVars, fetchVars, procVars, runVars, idxVars>>
    \/ \E k \in Kinds : PageFetched(k) /\ UNCHANGED <<cleanVars, fetchVars, procVars, runVars, idxVars>>
    \/ \E k \in Kinds : PageFailed(k) /\ UNCHANGED <<cleanVars, fetchVars, procVars, runVars, idxVars>>

SpecEnum == InitEnum /\ [][NextEnum]_vars

-----------------------------------------------------------------------------
(* The batched resolver.  A lookup is lookupProfileWithTimeout(name, 30)    *)
(* inside fetchName: a race between a 30 s timer and lookupProfile(name).   *)
(*   "unstarted"        fetchName not called yet                            *)
(*   "pending"          the race is undecided; lookupProfile is running     *)
(*   "resolved"         lookupProfile resolved first                        *)
(*   "rejected"         lookupProfile rejected first                        *)
(*   "timedOut"         the timer won; lookupProfile is still running       *)
(*                      (Promise.race cancels nothing)                      *)
(*   "timedOutSettled"  the timer won; lookupProfile has ended since        *)

MaxNames     == 3       \* names handed to fetchNames
MaxBatchSize == 2       \* batchSize

NameC == <<"c">>
ResolveNames == {<<"a">>, NameB, NameC}

\* profiles the lookup service may return
ProfileSamples ==
    { Obj(<<[k |-> <<"_">>, val |-> Leaf(1)]>>),
      Obj(<<[k |-> <<"$", ".">>, val |-> Obj(<<[k |-> <<".">>, val |-> Leaf(1)]>>)]>>) }

\* fetchName's return value: null (line 121) or { key, value } (lines 115-117)
NullResult == [ok |-> FALSE, key |-> <<>>, value |-> Null]

\* lines 114-117; Object.assign({}, profile) is a shallow copy of the profile
fetchNameResult(name, profile) ==
    [ok |-> TRUE, key |-> name, value |-> cleanEntry(profile)]

\* the positions in names of the lookups of batch b when ix names are taken
batchIndexes(i, b) == (i - Len(b) + 1)..i

\* the loop test with > for >= : batches of batchSize + 1 names
batchFullOffByOne(b, bs) == Len(b) > bs

\* line 131: batch.length >= batchSize
batchFull(b, bs) == Len(b) >= bs

RECURSIVE runLoop(_, _, _, _)
\* lines 130-150: the for loop from the point where i names are taken and
\* the batch is b, up to the next await or the return
runLoop(nms, bs, i, b) ==
    IF i = Len(nms)
    THEN [pc |-> IF Len(b) > 0 THEN "final" ELSE "done", ix |-> i, batch |-> b]
    ELSE IF batchFull(b, bs)
         THEN [pc |-> "batch", ix |-> i, batch |-> b]
         ELSE runLoop(nms, bs, i + 1, Append(b, nms[i + 1]))

\* the forEach callback that counts an error for every result
tallyOneAlwaysCounts(acc, result) ==
    IF result.ok
    THEN [profiles |-> Append(acc.profiles, [profile |-> result.value, fqu |-> Str(result.key)]),
          errorCount |-> acc.errorCount + 1]
    ELSE [profiles |-> acc.profiles, errorCount |-> acc.errorCount + 1]

\* lines 133-140 / 152-159: the forEach callback for one result
tallyOne(acc, result) ==
    IF result.ok
    THEN [profiles |-> Append(acc.profiles, [profile |-> result.value, fqu |-> Str(result.key)]),
          errorCount |-> acc.errorCount]
    ELSE [profiles |-> acc.profiles, errorCount |-> acc.errorCount + 1]

RECURSIVE tally(_, _)
\* results.forEach(...): Promise.all gives the results in batch order
tally(acc, results) ==
    IF results = <<>> THEN acc
    ELSE tally(tallyOne(acc, Head(results)), Tail(results))

\* every lookup from the batch on starts at once
startLookupsAhead(lk, i, b) ==
    [j \in DOMAIN lk |-> IF j >= i - Len(b) + 1 THEN "pending" ELSE lk[j]]

\* batch.map(fetchName): every lookup of the batch starts
startLookups(lk, i, b) ==
    [j \in DOMAIN lk |-> IF j \in batchIndexes(i, b) THEN "pending" ELSE lk[j]]

\* the results of the current batch, in batch order
batchResults == [j \in 1..Len(batch) |-> fetched[ix - Len(batch) + j]]

\* Promise.all over the lookupProfile calls themselves, without the race
batchSettledNoRace ==
    \A j \in batchIndexes(ix, batch) : lookup[j] \notin {"pending", "timedOut"}

batchSettled == \A j \in batchIndexes(ix, batch) : lookup[j] # "pending"

\* lookups whose lookupProfile call has not ended
InFlight == {j \in DOMAIN lookup : lookup[j] \in {"pending", "timedOut"}}

\* the loop has reached st: its lookups start if it stopped at an await
EnterLoopState(st) ==
    /\ fetchPc' = st.pc
    /\ ix' = st.ix
    /\ batch' = st.batch
    /\ lookup' = IF st.pc \in {"batch", "final"}
                 THEN startLookups(lookup, st.ix, st.batch)
                 ELSE lookup

\* line 125: fetchNames(names, batchSize) is called
FetchNamesStart ==
    /\ fetchPc = "idle"
    /\ EnterLoopState(runLoop(names, batchSize, 0, <<>>))
    /\ UNCHANGED <<names, batchSize, fetched, profiles, errorCount, delays>>

\* lines 104-117: lookupProfile resolves before the timer
LookupResolves(j) ==
    /\ j \in DOMAIN lookup
    /\ lookup[j] = "pending"
    /\ \E profile \in ProfileSamples :
          fetched' = [fetched EXCEPT ![j] = fetchNameResult(names[j], profile)]
    /\ lookup' = [lookup EXCEPT ![j] = "resolved"]
    /\ UNCHANGED <<names, batchSize, fetchPc, ix, batch, profiles, errorCount, delays>>

\* lines 104-108, 118-121: lookupProfile rejects before the timer
LookupRejects(j) ==
    /\ j \in DOMAIN lookup
    /\ lookup[j] = "pending"
    /\ lookup' = [lookup EXCEPT ![j] = "rejected"]
    /\ fetched' = [fetched EXCEPT ![j] = NullResult]
    /\ UNCHANGED <<names, batchSize, fetchPc, ix, batch, profiles, errorCount, delays>>

\* lines 105-107, 118-121: the 30 s timer fires first
LookupTimesOut(j) ==
    /\ j \in DOMAIN lookup
    /\ lookup[j] = "pending"
    /\ lookup' = [lookup EXCEPT ![j] = "timedOut"]
    /\ fetched' = [fetched EXCEPT ![j] = NullResult]
    /\ UNCHANGED <<names, batchSize, fetchPc, ix, batch, profiles, errorCount, delays>>

\* line 108: lookupProfile ends after its race was lost; nobody reads it
LateLookupEnds(j) ==
    /\ j \in DOMAIN lookup
    /\ lookup[j] = "timedOut"
    /\ lookup' = [lookup EXCEPT ![j] = "timedOutSettled"]
    /\ UNCHANGED <<names, batchSize, fetchPc, ix, batch, fetched, profiles, errorCount,
                   delays>>

\* lines 132-143: Promise.all of a full batch resolves; the results are
\* tallied and promiseTimer(BATCH_DELAY) is called
BatchSettled ==
    /\ fetchPc = "batch"
    /\ batchSettled
    /\ LET acc == tally([profiles |-> profiles, errorCount |-> errorCount], batchResults)
       IN  /\ profiles' = acc.profiles
           /\ errorCount' = acc.errorCount
    /\ delays' = delays + 1
    /\ fetchPc' = "timer"
    /\ UNCHANGED <<names, batchSize, ix, batch, lookup, fetched>>

\* lines 143-149: the delay ends; batch = [], the name the loop holds is
\* pushed and the loop runs on
TimerFired ==
    /\ fetchPc = "timer"
    /\ EnterLoopState(runLoop(names, batchSize, ix + 1, <<names[ix + 1]>>))
    /\ UNCHANGED <<names, batchSize, fetched, profiles, errorCount, delays>>

\* lines 151-162: Promise.all of the last batch resolves; fetchNames returns
FinalSettled ==
    /\ fetchPc = "final"
    /\ batchSettled
    /\ LET acc == tally([profiles |-> profiles, errorCount |-> errorCount], batchResults)
       IN  /\ profiles' = acc.profiles
           /\ errorCount' = acc.errorCount
    /\ fetchPc' = "done"
    /\ UNCHANGED <<names, batchSize, ix, batch, lookup, fetched, delays>>

InitFetch ==
    /\ names \in SeqsUpTo(ResolveNames, MaxNames)
    /\ batchSize \in 1..MaxBatchSize
    /\ fetchPc = "idle"
    /\ ix = 0
    /\ batch = <<>>
    /\ lookup = [j \in 1..Len(names) |-> "unstarted"]
    /\ fetched = [j \in 1..Len(names) |-> NullResult]
    /\ profiles = <<>>
    /\ errorCount = 0
    /\ delays = 0
    /\ CleanOff
    /\ EnumOff
    /\ ProcessOff
    /\ RunOff
    /\ IndexOff

NextFetch ==
    \/ FetchNamesStart /\ UNCHANGED <<cleanVars, enumVars, procVars, runVars, idxVars>>
    \/ \E j \in DOMAIN lookup : LookupResolves(j) /\ UNCHANGED <<cleanVars, enumVars, procVars, runVars, idxVars>>
    \/ \E j \in DOMAIN lookup : LookupRejects(j) /\ UNCHANGED <<cleanVars, enumVars, procVars, runVars, idxVars>>
    \/ \E j \in DOMAIN lookup : LookupTimesOut(j) /\ UNCHANGED <<cleanVars, enumVars, procVars, runVars, idxVars>>
    \/ \E j \in DOMAIN lookup : LateLookupEnds(j) /\ UNCHANGED <<cleanVars, enumVars, procVars, runVars, idxVars>>
    \/ BatchSettled /\ UNCHANGED <<cleanVars, enumVars, procVars, runVars, idxVars>>
    \/ TimerFired /\ UNCHANGED <<cleanVars, enumVars, procVars, runVars, idxVars>>
    \/ FinalSettled /\ UNCHANGED <<cleanVars, enumVars, procVars, runVars, idxVars>>

SpecFetch == InitFetch /\ [][NextFetch]_vars

\* the steps of fetchNames that the event loop and the timers take by
\* themselves: the continuations after an await (lines 132, 143, 151) and the
\* setTimeout callbacks of lines 100 and 106.  Nothing makes lookupProfile
\* end: LookupResolves, LookupRejects and LateLookupEnds are not fair.
FairFetch ==
    /\ WF_vars(BatchSettled /\ UNCHANGED <<cleanVars, enumVars, procVars, runVars, idxVars>>)
    /\ WF_vars(TimerFired /\ UNCHANGED <<cleanVars, enumVars, procVars, runVars, idxVars>>)
    /\ WF_vars(FinalSettled /\ UNCHANGED <<cleanVars, enumVars, procVars, runVars, idxVars>>)
    /\ WF_vars(\E j \in DOMAIN lookup :
                  LookupTimesOut(j)
                  /\ UNCHANGED <<cleanVars, enumVars, procVars, runVars, idxVars>>)

SpecFetchFair == SpecFetch /\ FairFetch

-----------------------------------------------------------------------------
(* processAllNames, from the point where the resolved entries are known:    *)
(* with options.useFiles they are read from the two dump files.             *)

MaxEntries == 2         \* entries in the profiles file

AliceId  == <<"a", "l", "i", "c", "e", ".", "i", "d">>
BobTest  == <<"b", "o", "b", ".", "t", "e", "s", "t">>

FquSamples ==
    {AliceId, BobTest, NameA, <<".", "i", "d">>, <<"a", ".", "i", "d", ".", "i", "d">>,
     <<"a", "i", "d">>}

\* an entry of the file: any profile, and a fqu that is a string or missing
FileEntries ==
    {[profile |-> p, fqu |-> f] :
        p \in ProfileSamples, f \in {Str(cs) : cs \in FquSamples} \cup {Undefined}}

\* username.endsWith('id'): the suffix test without its dot
endsWithDotIdNoDot(cs) ==
    Len(cs) >= 2 /\ SubSeq(cs, Len(cs) - 1, Len(cs)) = <<"i", "d">>

\* line 239: username.endsWith('.id')
endsWithDotId(cs) ==
    Len(cs) >= 3 /\ SubSeq(cs, Len(cs) - 2, Len(cs)) = <<".", "i", "d">>

\* lines 238-241: the username of a fqu string
deriveUsername(cs) ==
    IF endsWithDotId(cs) THEN SubSeq(cs, 1, Len(cs) - 3) ELSE cs

\* lines 238-239 if reading endsWith of any fqu went through
constructionNeverThrows(ent) == FALSE

\* lines 238-239: entry.fqu.endsWith throws unless entry.fqu is a string
constructionThrows(ent) == ent.fqu.t # "string"

\* lines 242-244: the NamespaceRecord of an entry
newEntry(ent) ==
    [username |-> Str(deriveUsername(ent.fqu.s)),
     fqu      |-> ent.fqu,
     profile  |-> cleanEntry(ent.profile)]

\* lines 233-234: the document of the profile collection for an entry
profileDoc(ent) == [key |-> ent.fqu, value |-> cleanEntry(ent.profile)]

RECURSIVE namespaceCalls(_, _)
\* lines 236-250: the namespaceCollection.save calls for the first n entries,
\* in order; an entry whose construction throws makes none
namespaceCalls(ents, n) ==
    IF n = 0 THEN <<>>
    ELSE namespaceCalls(ents, n - 1) \o
         (IF constructionThrows(ents[n]) THEN <<>>
          ELSE <<[doc |-> newEntry(ents[n]), of |-> n, status |-> "pending"]>>)

\* cleanEntry(entry.profile) rewrites the profile of the entry in place
cleanedInPlace(ents) ==
    [i \in 1..Len(ents) |-> [ents[i] EXCEPT !.profile = cleanEntry(ents[i].profile)]]

\* lines 223-226: the entries are read from options.useFiles.profiles
LoadFromFiles ==
    /\ procPc = "idle"
    /\ profiles' = fileProfiles
    /\ procPc' = "fetched"
    /\ UNCHANGED <<fileProfiles, profileSaves, namespaceSaves, skipped>>
    /\ UNCHANGED <<names, batchSize, fetchPc, ix, batch, lookup, fetched, errorCount, delays>>

\* lines 230-234: fetchingPromise resolves; profileCollection.save is called
\* for every entry
PersistProfiles ==
    /\ procPc = "fetched"
    /\ profileSaves' = [i \in 1..Len(profiles) |->
                           [doc |-> profileDoc(profiles[i]), status |-> "pending"]]
    /\ profiles' = cleanedInPlace(profiles)
    /\ procPc' = "profileSaves"
    /\ UNCHANGED <<fileProfiles, namespaceSaves, skipped>>
    /\ UNCHANGED <<names, batchSize, fetchPc, ix, batch, lookup, fetched, errorCount, delays>>

\* a profileCollection.save call succeeds
ProfileSaveOk(i) ==
    /\ i \in DOMAIN profileSaves
    /\ profileSaves[i].status = "pending"
    /\ profileSaves' = [profileSaves EXCEPT ![i].status = "ok"]
    /\ UNCHANGED <<fileProfiles, procPc, namespaceSaves, skipped, fetchVars>>

\* a profileCollection.save call fails
ProfileSaveFails(i) ==
    /\ i \in DOMAIN profileSaves
    /\ profileSaves[i].status = "pending"
    /\ profileSaves' = [profileSaves EXCEPT ![i].status = "failed"]
    /\ UNCHANGED <<fileProfiles, procPc, namespaceSaves, skipped, fetchVars>>

\* lines 233-236: Promise.all rejects as soon as one save has failed
ProfileSavesRejected ==
    /\ procPc = "profileSaves"
    /\ \E i \in DOMAIN profileSaves : profileSaves[i].status = "failed"
    /\ procPc' = "failed"
    /\ UNCHANGED <<fileProfiles, profileSaves, namespaceSaves, skipped, fetchVars>>

\* lines 236-250: every profile save succeeded; a NamespaceRecord is built
\* and saved for every entry, a throwing entry is logged and skipped
PersistNamespace ==
    /\ procPc = "profileSaves"
    /\ \A i \in DOMAIN profileSaves : profileSaves[i].status = "ok"
    /\ namespaceSaves' = namespaceCalls(profiles, Len(profiles))
    /\ skipped' = {i \in DOMAIN profiles : constructionThrows(profiles[i])}
    /\ profiles' = [i \in 1..Len(profiles) |->
                       IF constructionThrows(profiles[i]) THEN profiles[i]
                       ELSE [profiles[i] EXCEPT !.profile = cleanEntry(profiles[i].profile)]]
    /\ procPc' = "namespaceSaves"
    /\ UNCHANGED <<fileProfiles, profileSaves>>
    /\ UNCHANGED <<names, batchSize, fetchPc, ix, batch, lookup, fetched, errorCount, delays>>

\* a namespaceCollection.save call succeeds
NamespaceSaveOk(i) ==
    /\ i \in DOMAIN namespaceSaves
    /\ namespaceSaves[i].status = "pending"
    /\ namespaceSaves' = [namespaceSaves EXCEPT ![i].status = "ok"]
    /\ UNCHANGED <<fileProfiles, procPc, profileSaves, skipped, fetchVars>>

\* a namespaceCollection.save call fails
NamespaceSaveFails(i) ==
    /\ i \in DOMAIN namespaceSaves
    /\ namespaceSaves[i].status = "pending"
    /\ namespaceSaves' = [namespaceSaves EXCEPT ![i].status = "failed"]
    /\ UNCHANGED <<fileProfiles, procPc, profileSaves, skipped, fetchVars>>

\* lines 236-251: the second Promise.all rejects
NamespaceSavesRejected ==
    /\ procPc = "namespaceSaves"
    /\ \E i \in DOMAIN namespaceSaves : namespaceSaves[i].status = "failed"
    /\ procPc' = "failed"
    /\ UNCHANGED <<fileProfiles, profileSaves, namespaceSaves, skipped, fetchVars>>

\* lines 236-251: the second Promise.all resolves, and so does processAllNames
ProcessDone ==
    /\ procPc = "namespaceSaves"
    /\ \A i \in DOMAIN namespaceSaves : namespaceSaves[i].status = "ok"
    /\ procPc' = "done"
    /\ UNCHANGED <<fileProfiles, profileSaves, namespaceSaves, skipped, fetchVars>>

\* processAllNames(namespaceCollection, profileCollection, { useFiles })
InitProcess ==
    /\ fileProfiles \in SeqsUpTo(FileEntries, MaxEntries)
    /\ procPc = "idle"
    /\ profileSaves = <<>>
    /\ namespaceSaves = <<>>
    /\ skipped = {}
    /\ CleanOff
    /\ EnumOff
    /\ FetchOff
    /\ mode = "files"
    /\ runPc = "off"
    /\ filesWritten = 0
    /\ IndexOff

NextProcess ==
    \/ LoadFromFiles /\ UNCHANGED <<cleanVars, enumVars, runVars, idxVars>>
    \/ PersistProfiles /\ UNCHANGED <<cleanVars, enumVars, runVars, idxVars>>
    \/ \E i \in DOMAIN profileSaves : ProfileSaveOk(i) /\ UNCHANGED <<cleanVars, enumVars, runVars, idxVars>>
    \/ \E i \in DOMAIN profileSaves : ProfileSaveFails(i) /\ UNCHANGED <<cleanVars, enumVars, runVars, idxVars>>
    \/ ProfileSavesRejected /\ UNCHANGED <<cleanVars, enumVars, runVars, idxVars>>
    \/ PersistNamespace /\ UNCHANGED <<cleanVars, enumVars, runVars, idxVars>>
    \/ \E i \in DOMAIN namespaceSaves : NamespaceSaveOk(i) /\ UNCHANGED <<cleanVars, enumVars, runVars, idxVars>>
    \/ \E i \in DOMAIN namespaceSaves : NamespaceSaveFails(i) /\ UNCHANGED <<cleanVars, enumVars, runVars, idxVars>>
    \/ NamespaceSavesRejected /\ UNCHANGED <<cleanVars, enumVars, runVars, idxVars>>
    \/ ProcessDone /\ UNCHANGED <<cleanVars, enumVars, runVars, idxVars>>

SpecProcess == InitProcess /\ [][NextProcess]_vars

-----------------------------------------------------------------------------
(* createSearchIndex.  The state after lines 257-261 is the initial state:  *)
(* a cursor over the namespace collection and four empty accumulators.      *)
(* A save call is a record [doc, of, status]: the document, the position of *)
(* the record it was made for, and "pending" | "ok" | "failed".             *)

MaxRecords == 2         \* documents in the namespace collection

\* an array; e holds its elements in order
Arr(xs) == [t |-> "array", v |-> 0, e |-> xs, s |-> <<>>]

\* the property names and the service tags the callback reads
AccountKey    == <<"a", "c", "c", "o", "u", "n", "t">>
ServiceKey    == <<"s", "e", "r", "v", "i", "c", "e">>
IdentifierKey == <<"i", "d", "e", "n", "t", "i", "f", "i", "e", "r">>
NameKey       == <<"n", "a", "m", "e">>
FormattedKey  == <<"f", "o", "r", "m", "a", "t", "t", "e", "d">>
GivenKey      == <<"g", "i", "v", "e", "n">>
OpenBazaar    == <<"o", "p", "e", "n", "b", "a", "z", "a", "a", "r">>
Twitter       == <<"t", "w", "i", "t", "t", "e", "r">>

\* reading a property of undefined or null throws a TypeError
Nullish(x) == x.t \in {"undefined", "null"}

\* x[key] for x that is not nullish: strings, numbers and arrays have none of
\* the properties the callback reads
Prop(x, key) == IF x.t = "object" THEN Get(x.e, key) ELSE Undefined

\* the test of if (x)
Truthy(x) ==
    CASE x.t \in {"undefined", "null"} -> FALSE
      [] x.t = "string"                -> x.s # <<>>
      [] x.t = "leaf"                  -> x.v # 0
      [] OTHER                         -> TRUE

\* String.prototype.toLocaleLowerCase on the letters the samples use
lowerChar(c) ==
    CASE c = "A" -> "a"
      [] c = "B" -> "b"
      [] c = "E" -> "e"
      [] c = "O" -> "o"
      [] OTHER   -> c

\* the name left in the case it was written in
keepCase(cs) == cs

toLocaleLowerCase(cs) == [i \in 1..Len(cs) |-> lowerChar(cs[i])]

\* the callback when a null account is passed over instead of read
scanAccountSkipsNull(prev, account) ==
    IF Nullish(account) THEN prev
    ELSE IF Prop(account, ServiceKey) = Str(OpenBazaar)
         THEN [prev EXCEPT !.openbazaar = Prop(account, IdentifierKey)]
    ELSE IF Prop(account, ServiceKey) = Str(Twitter)
         THEN [prev EXCEPT !.twitterHandle = Prop(account, IdentifierKey)]
    ELSE prev

\* lines 271-275: the callback of profile.account.forEach on one account
scanAccount(prev, account) ==
    IF Nullish(account) THEN [prev EXCEPT !.threw = TRUE]
    ELSE IF Prop(account, ServiceKey) = Str(OpenBazaar)
         THEN [prev EXCEPT !.openbazaar = Prop(account, IdentifierKey)]
    ELSE IF Prop(account, ServiceKey) = Str(Twitter)
         THEN [prev EXCEPT !.twitterHandle = Prop(account, IdentifierKey)]
    ELSE prev

RECURSIVE scanAccounts(_, _)
\* lines 265-277: openbazaar and twitterHandle after the first n accounts;
\* an exception ends the forEach
scanAccounts(accounts, n) ==
    IF n = 0 THEN [threw |-> FALSE, openbazaar |-> Null, twitterHandle |-> Null]
    ELSE LET prev == scanAccounts(accounts, n - 1)
         IN  IF prev.threw THEN prev ELSE scanAccount(prev, accounts[n])

\* lines 278-284: name.toLocaleLowerCase is a function only on a string
deriveName(profile) ==
    LET pn == Prop(profile, NameKey)
        nm == IF Truthy(Prop(pn, FormattedKey)) THEN Prop(pn, FormattedKey) ELSE pn
    IN  IF ~Truthy(pn) THEN [threw |-> FALSE, name |-> Null]
        ELSE IF nm.t = "string" THEN [threw |-> FALSE, name |-> Str(toLocaleLowerCase(nm.s))]
        ELSE [threw |-> TRUE, name |-> Null]

\* lines 265-284: the try block up to the first push
scanUser(user) ==
    LET profile == user.profile
        acc     == IF Nullish(profile) THEN Undefined ELSE Prop(profile, AccountKey)
        \* a truthy profile.account without forEach throws at line 270
        scan    == IF ~Truthy(acc) THEN scanAccounts(<<>>, 0)
                   ELSE IF acc.t = "array" THEN scanAccounts(acc.e, Len(acc.e))
                   ELSE [threw |-> TRUE, openbazaar |-> Null, twitterHandle |-> Null]
        nm      == IF Nullish(profile) THEN [threw |-> TRUE, name |-> Null]
                   ELSE deriveName(profile)
    IN  [threw         |-> Nullish(profile) \/ scan.threw \/ nm.threw,
         name          |-> nm.name,
         twitterHandle |-> scan.twitterHandle,
         openbazaar    |-> scan.openbazaar]

\* lines 296-299: the SearchProfileRecord of a record
searchEntry(user, r) ==
    [name |-> r.name, profile |-> user.profile, openbazaar |-> r.openbazaar,
     twitter_handle |-> r.twitterHandle, username |-> user.username,
     fullyQualifiedName |-> user.fqu]

\* if (x) { xs.push(x) }
pushIfTruthy(xs, x) == IF Truthy(x) THEN Append(xs, x) ELSE xs

RECURSIVE setValues(_)
\* [...new Set(xs)] : the first occurrence of every value, in order
setValues(xs) ==
    IF xs = <<>> THEN <<>>
    ELSE LET front == setValues(SubSeq(xs, 1, Len(xs) - 1))
             last  == xs[Len(xs)]
         IN  IF \E i \in 1..Len(front) : front[i] = last THEN front
             ELSE Append(front, last)

\* documents of the namespace collection
AliceUser ==
    [fqu |-> Str(NameA), username |-> Str(<<"a">>),
     profile |-> Obj(<<
        [k |-> NameKey,
         val |-> Obj(<<[k |-> FormattedKey,
                        val |-> Str(<<"A", "l", "i", "c", "e", " ", "A">>)]>>)],
        [k |-> AccountKey,
         val |-> Arr(<<Obj(<<[k |-> ServiceKey, val |-> Str(Twitter)],
                             [k |-> IdentifierKey, val |-> Str(<<"@", "a">>)]>>)>>)]>>)]

BobUser ==
    [fqu |-> Str(<<"b", ".", "i", "d">>), username |-> Str(NameB),
     profile |-> Obj(<<[k |-> NameKey, val |-> Str(<<"b", "o", "b">>)]>>)]

\* the name, the handle and the fqu of other documents once more
EchoUser ==
    [fqu |-> Str(<<"b", ".", "i", "d">>), username |-> Str(NameB),
     profile |-> Obj(<<
        [k |-> NameKey, val |-> Str(<<"B", "O", "B">>)],
        [k |-> AccountKey,
         val |-> Arr(<<Obj(<<[k |-> ServiceKey, val |-> Str(OpenBazaar)],
                             [k |-> IdentifierKey, val |-> Str(<<"o", "b">>)]>>),
                       Obj(<<[k |-> ServiceKey, val |-> Str(Twitter)],
                             [k |-> IdentifierKey, val |-> Str(<<"@", "a">>)]>>)>>)]>>)]

\* two twitter accounts and no name
TwoHandlesUser ==
    [fqu |-> Str(<<"d", ".", "i", "d">>), username |-> Str(<<"d">>),
     profile |-> Obj(<<
        [k |-> AccountKey,
         val |-> Arr(<<Obj(<<[k |-> ServiceKey, val |-> Str(Twitter)],
                             [k |-> IdentifierKey, val |-> Str(<<"@", "d">>)]>>),
                       Obj(<<[k |-> ServiceKey, val |-> Str(Twitter)],
                             [k |-> IdentifierKey, val |-> Str(<<"@", "e">>)]>>)>>)]>>)]

\* the account list holds null after a twitter account
NullAccountUser ==
    [fqu |-> Str(<<"e", ".", "i", "d">>), username |-> Str(<<"e">>),
     profile |-> Obj(<<
        [k |-> NameKey, val |-> Str(<<"E", "v", "e">>)],
        [k |-> AccountKey,
         val |-> Arr(<<Obj(<<[k |-> ServiceKey, val |-> Str(Twitter)],
                             [k |-> IdentifierKey, val |-> Str(<<"@", "v">>)]>>),
                       Null>>)]>>)]

\* no profile at all
NoProfileUser ==
    [fqu |-> Str(<<"f", ".", "i", "d">>), username |-> Str(<<"f">>), profile |-> Undefined]

\* an empty profile and no fqu
AnonymousUser ==
    [fqu |-> Undefined, username |-> Undefined, profile |-> Obj(<<>>)]

\* a name object without a formatted field
GivenNameUser ==
    [fqu |-> Str(<<"g", ".", "i", "d">>), username |-> Str(<<"g">>),
     profile |-> Obj(<<
        [k |-> NameKey,
         val |-> Obj(<<[k |-> GivenKey, val |-> Str(<<"G">>)]>>)]>>)]

IndexUsers ==
    {AliceUser, BobUser, EchoUser, TwoHandlesUser, NullAccountUser, NoProfileUser,
     AnonymousUser, GivenNameUser}

\* lines 263-304: the forEach callback on the next document of the cursor
ScanUser ==
    /\ idxPc = "scanning"
    /\ scanned < Len(nsRecords)
    /\ LET user == nsRecords[scanned + 1]
           r    == scanUser(user)
       IN  IF r.threw
           THEN /\ errors' = Append(errors, user.fqu)
                /\ UNCHANGED <<peopleNames, twitterHandles, usernames, searchSaves>>
           ELSE /\ peopleNames' = pushIfTruthy(peopleNames, r.name)
                /\ twitterHandles' = pushIfTruthy(twitterHandles, r.twitterHandle)
                /\ usernames' = pushIfTruthy(usernames, user.fqu)
                \* line 300: the promise of save is dropped
                /\ searchSaves' = Append(searchSaves,
                       [doc |-> searchEntry(user, r), of |-> scanned + 1,
                        status |-> "pending"])
                /\ UNCHANGED errors
    /\ scanned' = scanned + 1
    /\ UNCHANGED <<nsRecords, idxPc, cacheSaves, indexRequests>>

\* the cursor fails while it is read: cursor.forEach rejects and no then
\* callback runs
CursorFails ==
    /\ idxPc = "scanning"
    /\ idxPc' = "failed"
    /\ UNCHANGED <<nsRecords, scanned, peopleNames, twitterHandles, usernames, errors,
                   searchSaves, cacheSaves, indexRequests>>

\* a searchProfiles.save call ends; nothing waits for it
SearchSaveOk(i) ==
    /\ searchSaves[i].status = "pending"
    /\ searchSaves' = [searchSaves EXCEPT ![i].status = "ok"]
    /\ UNCHANGED <<nsRecords, idxPc, scanned, peopleNames, twitterHandles, usernames,
                   errors, cacheSaves, indexRequests>>

SearchSaveFails(i) ==
    /\ searchSaves[i].status = "pending"
    /\ searchSaves' = [searchSaves EXCEPT ![i].status = "failed"]
    /\ UNCHANGED <<nsRecords, idxPc, scanned, peopleNames, twitterHandles, usernames,
                   errors, cacheSaves, indexRequests>>

\* a cache save call: the collection and the array of the document
cacheSave(coll, xs) == [coll |-> coll, values |-> setValues(xs), status |-> "pending"]

\* lines 305-313: cursor.forEach resolved; the name cache is saved
ScanEnds ==
    /\ idxPc = "scanning"
    /\ scanned = Len(nsRecords)
    /\ cacheSaves' = Append(cacheSaves, cacheSave("people", peopleNames))
    /\ idxPc' = "peopleSave"
    /\ UNCHANGED <<nsRecords, scanned, peopleNames, twitterHandles, usernames, errors,
                   searchSaves, indexRequests>>

\* the chain when it does not wait for the pending cache save
lastNotAwaited == cacheSaves

\* the pending cache save has succeeded
lastSaved == [cacheSaves EXCEPT ![Len(cacheSaves)].status = "ok"]

\* line 314: peopleCache.save resolved
PeopleSaved ==
    /\ idxPc = "peopleSave"
    /\ cacheSaves' = Append(lastSaved, cacheSave("twitter", twitterHandles))
    /\ idxPc' = "twitterSave"
    /\ UNCHANGED <<nsRecords, scanned, peopleNames, twitterHandles, usernames, errors,
                   searchSaves, indexRequests>>

\* line 315: twitterCache.save resolved
TwitterSaved ==
    /\ idxPc = "twitterSave"
    /\ cacheSaves' = Append(lastSaved, cacheSave("username", usernames))
    /\ idxPc' = "usernameSave"
    /\ UNCHANGED <<nsRecords, scanned, peopleNames, twitterHandles, usernames, errors,
                   searchSaves, indexRequests>>

\* lines 317-320: usernameCache.save resolved; ensureIndex is called and its
\* result dropped, and the promise of createSearchIndex resolves
UsernameSaved ==
    /\ idxPc = "usernameSave"
    /\ cacheSaves' = lastSaved
    /\ indexRequests' = indexRequests + 1
    /\ idxPc' = "done"
    /\ UNCHANGED <<nsRecords, scanned, peopleNames, twitterHandles, usernames, errors,
                   searchSaves>>

\* the pending cache save rejects: the rest of the chain is skipped
CacheSaveFails ==
    /\ idxPc \in {"peopleSave", "twitterSave", "usernameSave"}
    /\ cacheSaves' = [cacheSaves EXCEPT ![Len(cacheSaves)].status = "failed"]
    /\ idxPc' = "failed"
    /\ UNCHANGED <<nsRecords, scanned, peopleNames, twitterHandles, usernames, errors,
                   searchSaves, indexRequests>>

InitIndex ==
    /\ \E n \in 0..MaxRecords : nsRecords \in [1..n -> IndexUsers]
    /\ idxPc = "scanning"
    /\ scanned = 0
    /\ peopleNames = <<>>
    /\ twitterHandles = <<>>
    /\ usernames = <<>>
    /\ errors = <<>>
    /\ searchSaves = <<>>
    /\ cacheSaves = <<>>
    /\ indexRequests = 0
    /\ CleanOff
    /\ EnumOff
    /\ FetchOff
    /\ ProcessOff
    /\ RunOff

NextIndex ==
    \/ ScanUser /\ UNCHANGED <<cleanVars, enumVars, fetchVars, procVars, runVars>>
    \/ CursorFails /\ UNCHANGED <<cleanVars, enumVars, fetchVars, procVars, runVars>>
    \/ \E i \in DOMAIN searchSaves :
          SearchSaveOk(i) /\ UNCHANGED <<cleanVars, enumVars, fetchVars, procVars, runVars>>
    \/ \E i \in DOMAIN searchSaves :
          SearchSaveFails(i) /\ UNCHANGED <<cleanVars, enumVars, fetchVars, procVars, runVars>>
    \/ ScanEnds /\ UNCHANGED <<cleanVars, enumVars, fetchVars, procVars, runVars>>
    \/ PeopleSaved /\ UNCHANGED <<cleanVars, enumVars, fetchVars, procVars, runVars>>
    \/ TwitterSaved /\ UNCHANGED <<cleanVars, enumVars, fetchVars, procVars, runVars>>
    \/ UsernameSaved /\ UNCHANGED <<cleanVars, enumVars, fetchVars, procVars, runVars>>
    \/ CacheSaveFails /\ UNCHANGED <<cleanVars, enumVars, fetchVars, procVars, runVars>>

SpecIndex == InitIndex /\ [][NextIndex]_vars

-----------------------------------------------------------------------------
(* Whole runs: processAllNames against the live directory, processAllNames  *)
(* with options.useFiles, and dumpAllNamesFile.  The enumerations, the      *)
(* resolver and the persisting stage above are joined by _fetchAllNames.    *)
(*   runPc  "idle"         before the call                                  *)
(*          "enumerating"  Promise.all of line 192 is pending               *)
(*          "resolving"    names are collected, fetchNames runs             *)
(*          "resolved"     _fetchAllNames has resolved                      *)
(*          "written"      dumpAllNamesFile has resolved                    *)
(*          "failed"       _fetchAllNames or dumpAllNamesFile has failed    *)

\* line 223: options.useFiles
useFiles == mode = "files"

\* Promise.race in place of Promise.all: one enumeration is enough
anyEnumerated == \E k \in Kinds : enumPc[k] = "done"

\* an enumeration whose failure is swallowed counts as finished
allEnumeratedOrFailed == \A k \in Kinds : enumPc[k] \in {"done", "failed"}

\* line 192: Promise.all resolves when both enumerations have resolved
allEnumerated == \A k \in Kinds : enumPc[k] = "done"

\* lines 213 / 227 and 192: _fetchAllNames(options.pagesToFetch) is called;
\* in dumpAllNamesFile both ensureExists calls have returned
FetchAllStarts ==
    /\ ~useFiles
    /\ runPc = "idle"
    /\ StartEnumeration
    /\ runPc' = "enumerating"
    /\ procPc' = IF mode = "live" THEN "fetching" ELSE procPc
    /\ UNCHANGED <<mode, filesWritten, fileProfiles, profileSaves, namespaceSaves, skipped>>
    /\ UNCHANGED fetchVars

\* lines 210-211: ensureExists throws, and so does dumpAllNamesFile
DumpRefused ==
    /\ mode = "dump"
    /\ runPc = "idle"
    /\ runPc' = "failed"
    /\ UNCHANGED <<mode, filesWritten, enumVars, fetchVars, procVars>>

\* lines 193-199: both enumerations resolved; the names are concatenated
NamesCollected ==
    /\ runPc = "enumerating"
    /\ allEnumerated
    /\ names' = priorNames["names"] \o priorNames["subdomains"]
    /\ lookup' = [j \in 1..Len(names') |-> "unstarted"]
    /\ fetched' = [j \in 1..Len(names') |-> NullResult]
    /\ fetchPc' = "idle"
    /\ runPc' = "resolving"
    /\ UNCHANGED <<batchSize, ix, batch, profiles, errorCount, delays>>
    /\ UNCHANGED <<mode, filesWritten, enumVars, procVars>>

\* line 192: Promise.all rejects when an enumeration has rejected; no then
\* callback of lines 193-205, 214 or 230 runs
FetchAllRejected ==
    /\ runPc = "enumerating"
    /\ \E k \in Kinds : enumPc[k] = "failed"
    /\ runPc' = "failed"
    /\ procPc' = IF mode = "live" THEN "failed" ELSE procPc
    /\ UNCHANGED <<mode, filesWritten, fileProfiles, profileSaves, namespaceSaves, skipped>>
    /\ UNCHANGED <<enumVars, fetchVars>>

\* lines 201-205: fetchNames has returned; _fetchAllNames resolves
FetchAllResolved ==
    /\ runPc = "resolving"
    /\ fetchPc = "done"
    /\ runPc' = "resolved"
    /\ procPc' = IF mode = "live" THEN "fetched" ELSE procPc
    /\ UNCHANGED <<mode, filesWritten, fileProfiles, profileSaves, namespaceSaves, skipped>>
    /\ UNCHANGED <<enumVars, fetchVars>>

\* lines 214-217: both files are written
FilesWritten ==
    /\ mode = "dump"
    /\ runPc = "resolved"
    /\ filesWritten' = filesWritten + 2
    /\ runPc' = "written"
    /\ UNCHANGED <<mode, enumVars, fetchVars, procVars>>

\* lines 215-216: the first or the second writeFileSync throws
FileWriteFails ==
    /\ mode = "dump"
    /\ runPc = "resolved"
    /\ \E n \in {0, 1} : filesWritten' = filesWritten + n
    /\ runPc' = "failed"
    /\ UNCHANGED <<mode, enumVars, fetchVars, procVars>>

\* the directory of a run: at most two names and one subdomain
RunSources ==
    {[names |-> ns, subdomains |-> ss] :
        ns \in {<<>>, <<<<NameA>>>>, <<<<NameA, NameB>>>>, <<<<NameA>>, <<NameB>>>>},
        ss \in {<<>>, <<<<NameC>>>>}}

InitRun ==
    /\ mode \in {"live", "dump", "files"}
    /\ filesWritten = 0
    /\ enumPc = [k \in Kinds |-> "idle"]
    /\ page = [k \in Kinds |-> 0]
    /\ priorNames = [k \in Kinds |-> <<>>]
    /\ requested = [k \in Kinds |-> <<>>]
    /\ settled = [k \in Kinds |-> <<>>]
    /\ names = <<>>
    /\ fetchPc = "off"
    /\ ix = 0
    /\ batch = <<>>
    /\ lookup = <<>>
    /\ fetched = <<>>
    /\ profiles = <<>>
    /\ errorCount = 0
    /\ delays = 0
    /\ profileSaves = <<>>
    /\ namespaceSaves = <<>>
    /\ skipped = {}
    /\ IF useFiles
       THEN /\ fileProfiles \in SeqsUpTo(FileEntries, MaxEntries)
            /\ source = [names |-> <<<<NameA>>>>, subdomains |-> <<<<NameC>>>>]
            /\ pagesToFetch = 0
            /\ batchSize = 1
            /\ runPc = "off"
            /\ procPc = "idle"
       ELSE /\ fileProfiles = <<>>
            /\ source \in RunSources
            /\ pagesToFetch \in {0, 1}
            /\ batchSize \in 1..MaxBatchSize
            /\ runPc = "idle"
            /\ procPc = IF mode = "live" THEN "idle" ELSE "off"
    /\ CleanOff
    /\ IndexOff

NextRun ==
    \/ FetchAllStarts /\ UNCHANGED <<cleanVars, idxVars>>
    \/ DumpRefused /\ UNCHANGED <<cleanVars, idxVars>>
    \/ \E k \in Kinds :
          PageFetched(k) /\ UNCHANGED <<cleanVars, fetchVars, procVars, runVars, idxVars>>
    \/ \E k \in Kinds :
          PageFailed(k) /\ UNCHANGED <<cleanVars, fetchVars, procVars, runVars, idxVars>>
    \/ NamesCollected /\ UNCHANGED <<cleanVars, idxVars>>
    \/ FetchAllRejected /\ UNCHANGED <<cleanVars, idxVars>>
    \/ FetchNamesStart /\ UNCHANGED <<cleanVars, enumVars, procVars, runVars, idxVars>>
    \/ \E j \in DOMAIN lookup :
          LookupResolves(j) /\ UNCHANGED <<cleanVars, enumVars, procVars, runVars, idxVars>>
    \/ \E j \in DOMAIN lookup :
          LookupRejects(j) /\ UNCHANGED <<cleanVars, enumVars, procVars, runVars, idxVars>>
    \/ \E j \in DOMAIN lookup :
          LookupTimesOut(j) /\ UNCHANGED <<cleanVars, enumVars, procVars, runVars, idxVars>>
    \/ \E j \in DOMAIN lookup :
          LateLookupEnds(j) /\ UNCHANGED <<cleanVars, enumVars, procVars, runVars, idxVars>>
    \/ BatchSettled /\ UNCHANGED <<cleanVars, enumVars, procVars, runVars, idxVars>>
    \/ TimerFired /\ UNCHANGED <<cleanVars, enumVars, procVars, runVars, idxVars>>
    \/ FinalSettled /\ UNCHANGED <<cleanVars, enumVars, procVars, runVars, idxVars>>
    \/ FetchAllResolved /\ UNCHANGED <<cleanVars, idxVars>>
    \/ FilesWritten /\ UNCHANGED <<cleanVars, idxVars>>
    \/ FileWriteFails /\ UNCHANGED <<cleanVars, idxVars>>
    \/ useFiles /\ LoadFromFiles /\ UNCHANGED <<cleanVars, enumVars, runVars, idxVars>>
    \/ PersistProfiles /\ UNCHANGED <<cleanVars, enumVars, runVars, idxVars>>
    \/ \E i \in DOMAIN profileSaves :
          ProfileSaveOk(i) /\ UNCHANGED <<cleanVars, enumVars, runVars, idxVars>>
    \/ \E i \in DOMAIN profileSaves :
          ProfileSaveFails(i) /\ UNCHANGED <<cleanVars, enumVars, runVars, idxVars>>
    \/ ProfileSavesRejected /\ UNCHANGED <<cleanVars, enumVars, runVars, idxVars>>
    \/ PersistNamespace /\ UNCHANGED <<cleanVars, enumVars, runVars, idxVars>>
    \/ \E i \in DOMAIN namespaceSaves :
          NamespaceSaveOk(i) /\ UNCHANGED <<cleanVars, enumVars, runVars, idxVars>>
    \/ \E i \in DOMAIN namespaceSaves :
          NamespaceSaveFails(i) /\ UNCHANGED <<cleanVars, enumVars, runVars, idxVars>>
    \/ NamespaceSavesRejected /\ UNCHANGED <<cleanVars, enumVars, runVars, idxVars>>
    \/ ProcessDone /\ UNCHANGED <<cleanVars, enumVars, runVars, idxVars>>

SpecRun == InitRun /\ [][NextRun]_vars

-----------------------------------------------------------------------------
(* Sanitizer runs: cleanEntry applied once, then again to its own result    *)
(* (processAllNames sanitizes each profile twice, lines 234 and 244).       *)

InitClean ==
    /\ IsInputRecord(entry)
    /\ cleaned = Undefined
    /\ twice = Undefined
    /\ cleanPc = "input"
    /\ EnumOff
    /\ FetchOff
    /\ ProcessOff
    /\ RunOff
    /\ IndexOff

Clean ==
    /\ cleanPc = "input"
    /\ cleaned' = cleanEntry(entry)
    /\ cleanPc' = "cleaned"
    /\ UNCHANGED <<entry, twice, enumVars, fetchVars, procVars, runVars, idxVars>>

CleanAgain ==
    /\ cleanPc = "cleaned"
    /\ twice' = cleanEntry(cleaned)
    /\ cleanPc' = "twice"
    /\ UNCHANGED <<entry, cleaned, enumVars, fetchVars, procVars, runVars, idxVars>>

NextClean == Clean \/ CleanAgain

SpecClean == InitClean /\ [][NextClean]_vars

-----------------------------------------------------------------------------
(* Properties of createSearchIndex.                                         *)

\* profile.name.formatted when it is there, else profile.name
DisplayName(user) ==
    LET pn == Prop(user.profile, NameKey)
    IN  IF Truthy(Prop(pn, FormattedKey)) THEN Prop(pn, FormattedKey) ELSE pn

\* the record has a display name that is a string
HasName(user) ==
    /\ ~Nullish(user.profile)
    /\ Truthy(Prop(user.profile, NameKey))
    /\ DisplayName(user).t = "string"

\* the accounts of a record
Accounts(user) ==
    IF Nullish(user.profile) \/ Prop(user.profile, AccountKey).t # "array" THEN <<>>
    ELSE Prop(user.profile, AccountKey).e

\* the positions of the twitter accounts of a record
TwitterAt(user) ==
    {i \in DOMAIN Accounts(user) :
        ~Nullish(Accounts(user)[i]) /\ Prop(Accounts(user)[i], ServiceKey) = Str(Twitter)}

\* reading the accounts of the record throws
AccountScanThrows(user) ==
    \/ Nullish(user.profile)
    \/ /\ Truthy(Prop(user.profile, AccountKey))
       /\ \/ Prop(user.profile, AccountKey).t # "array"
          \/ \E i \in DOMAIN Accounts(user) : Nullish(Accounts(user)[i])

\* the callback runs on the record without an exception
ScansCleanly(user) ==
    /\ ~AccountScanThrows(user)
    /\ Truthy(Prop(user.profile, NameKey)) => DisplayName(user).t = "string"

Range(xs) == {xs[i] : i \in DOMAIN xs}

NoDuplicates(xs) == \A i, j \in DOMAIN xs : xs[i] = xs[j] => i = j

Lowered(cs) ==
    [i \in 1..Len(cs) |->
        IF cs[i] = "A" THEN "a" ELSE IF cs[i] = "B" THEN "b"
        ELSE IF cs[i] = "E" THEN "e" ELSE IF cs[i] = "O" THEN "o" ELSE cs[i]]

Records == Range(nsRecords)

CleanRecords == {u \in Records : ScansCleanly(u)}

\* the array of the document saved to a cache collection
CacheDoc(coll) == cacheSaves[CHOOSE i \in DOMAIN cacheSaves : cacheSaves[i].coll = coll].values

\* C11 as stated: after createSearchIndex the name cache holds exactly the
\* lowercased display names of all records that have one, the handle cache
\* exactly the identifiers of all twitter accounts, the username cache exactly
\* the fqu values of all records, each without duplicates.
C11_CachesHoldAllValues ==
    idxPc = "done" =>
        /\ Range(CacheDoc("people")) =
               {Str(Lowered(DisplayName(u).s)) : u \in {r \in Records : HasName(r)}}
        /\ Range(CacheDoc("twitter")) =
               {v \in UNION {{Prop(Accounts(u)[i], IdentifierKey) : i \in TwitterAt(u)} :
                                u \in Records} : Truthy(v)}
        /\ Range(CacheDoc("username")) = {v \in {u.fqu : u \in Records} : Truthy(v)}
        /\ \A c \in DOMAIN cacheSaves : NoDuplicates(cacheSaves[c].values)

\* the identifier of the last twitter account of a record, if it has one
LastTwitterId(u) ==
    IF TwitterAt(u) = {} THEN Null
    ELSE Prop(Accounts(u)[CHOOSE i \in TwitterAt(u) : \A j \in TwitterAt(u) : j <= i],
              IdentifierKey)

\* C11, amended: after createSearchIndex the name cache holds exactly the
\* lowercased display names of the records scanned without an exception that
\* have a name, the handle cache exactly the identifier of the last twitter
\* account of each such record, the username cache exactly the fqu values of
\* such records, each without duplicates.
C11_CachesHoldScannedValues ==
    idxPc = "done" =>
        /\ Range(CacheDoc("people")) =
               {Str(Lowered(DisplayName(u).s)) : u \in {r \in CleanRecords : HasName(r)}}
        /\ Range(CacheDoc("twitter")) =
               {v \in {LastTwitterId(u) : u \in CleanRecords} : Truthy(v)}
        /\ Range(CacheDoc("username")) = {v \in {u.fqu : u \in CleanRecords} : Truthy(v)}
        /\ \A c \in DOMAIN cacheSaves : NoDuplicates(cacheSaves[c].values)

\* the example of the claim, with a third record that repeats a name, a
\* handle and a fqu
C11_Witness ==
    /\ idxPc = "done"
    /\ \/ nsRecords = <<AliceUser, BobUser>>
       \/ nsRecords = <<AliceUser, BobUser, EchoUser>>
    /\ CacheDoc("people") = <<Str(<<"a", "l", "i", "c", "e", " ", "a">>), Str(<<"b", "o", "b">>)>>
    /\ CacheDoc("twitter") = <<Str(<<"@", "a">>)>>
    /\ CacheDoc("username") = <<Str(NameA), Str(<<"b", ".", "i", "d">>)>>

\* the positions scanned so far of the records whose account scan throws
Thrown == {i \in 1..scanned : AccountScanThrows(nsRecords[i])}

\* the values the records scanned so far push when those that throw push nothing
PushedBy(n, Value(_)) ==
    SelectSeq([i \in 1..n |->
                  IF ScansCleanly(nsRecords[i]) THEN Value(nsRecords[i]) ELSE Null],
              LAMBDA v : Truthy(v))

LoweredName(u) == IF HasName(u) THEN Str(Lowered(DisplayName(u).s)) ELSE Null

Fqu(u) == u.fqu

\* C12: a record whose account scan throws has its fqu in the error list,
\* pushes nothing on the three accumulators and has no searchProfiles.save
\* call, and the scan goes on: every record scanned ends either in the error
\* list or with a save call, and the caches are written only after the last
\* record was scanned.
C12_ThrowingRecordIsolated ==
    /\ \A i \in Thrown :
          /\ \E e \in DOMAIN errors : errors[e] = nsRecords[i].fqu
          /\ \A w \in DOMAIN searchSaves : searchSaves[w].of # i
    /\ peopleNames = PushedBy(scanned, LoweredName)
    /\ twitterHandles = PushedBy(scanned, LastTwitterId)
    /\ usernames = PushedBy(scanned, Fqu)
    /\ Len(errors) + Len(searchSaves) = scanned
    /\ \A i \in 1..scanned :
          ScansCleanly(nsRecords[i]) => \E w \in DOMAIN searchSaves : searchSaves[w].of = i
    /\ cacheSaves # <<>> => scanned = Len(nsRecords)

\* a record with null in its account list, then a record that is indexed
C12_Witness ==
    /\ idxPc = "done"
    /\ Len(nsRecords) >= 2
    /\ nsRecords[1] = NullAccountUser
    /\ nsRecords[2] = AliceUser
    /\ errors = <<NullAccountUser.fqu>>
    /\ \E w \in DOMAIN searchSaves : searchSaves[w].of = 2
    /\ CacheDoc("username") = <<AliceUser.fqu>>

\* C15: when createSearchIndex has resolved, every searchProfiles.save call
\* of the scan has succeeded; a failed one keeps the operation from resolving.
C15_ResolvedMeansSearchWritesDone ==
    idxPc = "done" => \A w \in DOMAIN searchSaves : searchSaves[w].status = "ok"

CacheOrder == <<"people", "twitter", "username">>

\* C16: the cache documents are saved in the order name cache, handle cache,
\* username cache, each only after the one before it succeeded and only after
\* the last record was scanned; after a failed cache save no later cache is
\* saved and ensureIndex is not called.
C16_CacheWritesInOrder ==
    /\ Len(cacheSaves) <= 3
    /\ \A c \in DOMAIN cacheSaves :
          /\ cacheSaves[c].coll = CacheOrder[c]
          /\ c < Len(cacheSaves) => cacheSaves[c].status = "ok"
    /\ cacheSaves # <<>> => idxPc # "scanning" /\ scanned = Len(nsRecords)
    /\ indexRequests \in {0, 1}
    /\ indexRequests = 1 <=>
          (Len(cacheSaves) = 3 /\ \A c \in DOMAIN cacheSaves : cacheSaves[c].status = "ok")
    /\ (\E c \in DOMAIN cacheSaves : cacheSaves[c].status = "failed") => idxPc = "failed"

\* the handle cache save failed after the name cache was saved
C16_Witness ==
    /\ idxPc = "failed"
    /\ Len(cacheSaves) = 2
    /\ cacheSaves[1].status = "ok"
    /\ cacheSaves[2].status = "failed"
    /\ indexRequests = 0

-----------------------------------------------------------------------------
(* Properties of whole runs.                                                *)

\* the stage of a run of processAllNames
Stage ==
    CASE procPc = "failed"                                       -> "Failed"
      [] procPc = "done"                                         -> "Done"
      [] procPc \in {"fetched", "profileSaves", "namespaceSaves"} -> "Persisting"
      [] procPc = "idle" /\ useFiles                             -> "LoadingFromFile"
      [] procPc = "idle" /\ ~useFiles                            -> "Idle"
      [] procPc = "fetching" /\ runPc = "enumerating"            -> "Enumerating"
      [] procPc = "fetching" /\ runPc # "enumerating"            -> "Resolving"
      [] OTHER                                                   -> "None"

StageSteps ==
    {<<"Idle", "Enumerating">>, <<"Enumerating", "Resolving">>, <<"Resolving", "Persisting">>,
     <<"LoadingFromFile", "Persisting">>, <<"Persisting", "Done">>,
     <<"Enumerating", "Failed">>, <<"Persisting", "Failed">>}

PageRequested == \E k \in Kinds : requested[k] # <<>>

\* the enumeration of names and the enumeration of subdomains have ended with
\* their lists
BothEnumerated == enumPc["names"] = "done" /\ enumPc["subdomains"] = "done"

LookupStarted == \E j \in DOMAIN lookup : lookup[j] # "unstarted"

StoreWritten == profileSaves # <<>> \/ namespaceSaves # <<>>

\* what has and has not happened at each stage
StageEffects ==
    /\ Stage \in {"Idle", "LoadingFromFile"} => ~PageRequested /\ ~LookupStarted /\ ~StoreWritten
    /\ Stage = "Enumerating" => ~LookupStarted /\ fetchPc = "off" /\ ~StoreWritten
    /\ Stage = "Resolving" => BothEnumerated /\ ~StoreWritten
    /\ LookupStarted => BothEnumerated
    /\ (StoreWritten \/ Stage \in {"Persisting", "Done"}) /\ ~useFiles =>
          /\ BothEnumerated
          /\ fetchPc = "done"
          /\ \A j \in DOMAIN lookup : lookup[j] \notin {"unstarted", "pending"}
          /\ Len(profiles) + errorCount = Len(names)
    /\ useFiles => ~PageRequested /\ ~LookupStarted /\ fetchPc = "off"
    /\ Stage = "Done" =>
          /\ \A i \in DOMAIN profileSaves : profileSaves[i].status = "ok"
          /\ \A i \in DOMAIN namespaceSaves : namespaceSaves[i].status = "ok"

\* a step of processAllNames keeps the stage or moves it along StageSteps
StageStep ==
    mode \in {"live", "files"} => (Stage' = Stage \/ <<Stage, Stage'>> \in StageSteps)

\* C14: a run of processAllNames goes Enumerating -> Resolving -> Persisting
\* -> Done; no lookup starts before both enumerations have resolved and no
\* save is issued before the last batch has settled; with options.useFiles it
\* goes LoadingFromFile -> Persisting -> Done without any page request or
\* lookup.
C14_StageOrder ==
    /\ [](mode \in {"live", "files"} => StageEffects)
    /\ [][StageStep]_vars

\* a live run is done: both kinds gave names, two batches were resolved and
\* the records were saved
C14_Witness ==
    /\ mode = "live"
    /\ Stage = "Done"
    /\ \A k \in Kinds : priorNames[k] # <<>>
    /\ delays >= 1
    /\ namespaceSaves # <<>>

\* C19: once a page fetch of an enumeration has failed, that enumeration
\* requests no further page, the run never gets past the enumeration, no
\* lookup is started, no file is written and no save is issued.
C19_FailedPageAbortsRun ==
    (mode \in {"live", "dump"} /\ \E k \in Kinds : enumPc[k] = "failed") =>
        /\ \A k \in Kinds : enumPc[k] = "failed" => requested[k] = settled[k]
        /\ runPc \in {"enumerating", "failed"}
        /\ mode = "live" => procPc \in {"fetching", "failed"}
        /\ fetchPc = "off"
        /\ ~LookupStarted
        /\ filesWritten = 0
        /\ ~StoreWritten

\* the names were enumerated, the fetch of the second page of subdomains
\* failed and the run has failed
C19_Witness ==
    /\ mode \in {"live", "dump"}
    /\ enumPc["names"] = "done"
    /\ priorNames["names"] # <<>>
    /\ enumPc["subdomains"] = "failed"
    /\ requested["subdomains"] = <<0, 1>>
    /\ runPc = "failed"
    /\ mode = "live" => procPc = "failed"

-----------------------------------------------------------------------------
(* Properties of processAllNames.                                           *)

DotId == <<".", "i", "d">>

\* C10: the username of every NamespaceRecord written is the
\* fullyQualifiedName with one trailing ".id" removed when the name ends with
\* ".id" and the unchanged name otherwise ("alice.id" -> "alice", "bob.test"
\* -> "bob.test"); its fqu is the unmodified fullyQualifiedName.
C10_UsernameDerivation ==
    \A i \in DOMAIN namespaceSaves :
        LET doc == namespaceSaves[i].doc
            f   == fileProfiles[namespaceSaves[i].of].fqu
        IN  /\ doc.fqu = f
            /\ doc.username.t = "string"
            /\ IF \E pre \in {SubSeq(f.s, 1, n) : n \in 0..Len(f.s)} : f.s = pre \o DotId
               THEN doc.username.s \o DotId = f.s
               ELSE doc.username.s = f.s
            /\ f.s = AliceId => doc.username.s = <<"a", "l", "i", "c", "e">>
            /\ f.s = BobTest => doc.username.s = BobTest

\* "alice.id" and "bob.test" have both been written, as "alice" and "bob.test"
C10_Witness ==
    /\ procPc = "done"
    /\ \E i, j \in DOMAIN namespaceSaves :
          /\ namespaceSaves[i].doc.fqu = Str(AliceId)
          /\ namespaceSaves[i].doc.username = Str(<<"a", "l", "i", "c", "e">>)
          /\ namespaceSaves[i].status = "ok"
          /\ namespaceSaves[j].doc.fqu = Str(BobTest)
          /\ namespaceSaves[j].doc.username = Str(BobTest)
          /\ namespaceSaves[j].status = "ok"

\* the positions of the entries whose fqu is a string
WellFormed == {i \in DOMAIN fileProfiles : fileProfiles[i].fqu.t = "string"}

\* the second stage of lines 236-250 has run
NamespaceStageRun ==
    \/ procPc \in {"namespaceSaves", "done"}
    \/ procPc = "failed" /\ \A i \in DOMAIN profileSaves : profileSaves[i].status = "ok"

\* C13: an entry whose NamespaceRecord cannot be built (its fqu is missing or
\* not a string) is skipped, a namespaceCollection.save call is made for every
\* other entry, in order, and processAllNames fails only when a save failed.
C13_MalformedEntrySkipped ==
    /\ NamespaceStageRun =>
          /\ skipped = DOMAIN fileProfiles \ WellFormed
          /\ {namespaceSaves[w].of : w \in DOMAIN namespaceSaves} = WellFormed
          /\ \A v, w \in DOMAIN namespaceSaves :
                v < w => namespaceSaves[v].of < namespaceSaves[w].of
    /\ procPc = "failed" =>
          \/ \E i \in DOMAIN profileSaves : profileSaves[i].status = "failed"
          \/ \E w \in DOMAIN namespaceSaves : namespaceSaves[w].status = "failed"

\* processAllNames resolved although the first entry has no fqu, and the
\* record of the second was saved
C13_Witness ==
    /\ procPc = "done"
    /\ Len(fileProfiles) = 2
    /\ fileProfiles[1].fqu = Undefined
    /\ skipped = {1}
    /\ Len(namespaceSaves) = 1
    /\ namespaceSaves[1].of = 2
    /\ namespaceSaves[1].status = "ok"

-----------------------------------------------------------------------------
(* Properties of the resolver.                                              *)

Succeeded(j) == lookup[j] = "resolved"
Failed(j)    == lookup[j] \in {"rejected", "timedOut", "timedOutSettled"}
TimedOut(j)  == lookup[j] \in {"timedOut", "timedOutSettled"}

RECURSIVE SucceededNames(_)
\* the first n name occurrences whose lookup succeeded, in input order
SucceededNames(n) ==
    IF n = 0 THEN <<>>
    ELSE SucceededNames(n - 1) \o (IF Succeeded(n) THEN <<names[n]>> ELSE <<>>)

\* C1: fetchNames returns one entry per name occurrence whose lookup
\* succeeded and counts every occurrence whose lookup timed out or failed,
\* so entries + errorCount is the number of names; ["a","b","c"] with "b"
\* timing out gives two entries and errorCount = 1.
C1_EntriesAndErrorsPartitionNames ==
    fetchPc = "done" =>
        /\ [i \in 1..Len(profiles) |-> profiles[i].fqu] =
               [i \in 1..Len(SucceededNames(Len(names))) |-> Str(SucceededNames(Len(names))[i])]
        /\ errorCount = Cardinality({j \in DOMAIN lookup : Failed(j)})
        /\ Len(profiles) + errorCount = Len(names)
        /\ (names = <<<<"a">>, NameB, NameC>> /\ Succeeded(1) /\ TimedOut(2) /\ Succeeded(3))
               => (Len(profiles) = 2 /\ errorCount = 1)

\* ["a","b","c"] has been resolved with "b" timed out
C1_Witness ==
    /\ fetchPc = "done"
    /\ names = <<<<"a">>, NameB, NameC>>
    /\ Succeeded(1) /\ TimedOut(2) /\ Succeeded(3)
    /\ Len(profiles) = 2
    /\ errorCount = 1

\* floor(M / B), minus one if M is a positive exact multiple of B
ExpectedDelays(m, b) == IF m > 0 /\ m % b = 0 THEN (m \div b) - 1 ELSE m \div b

\* C2: the number of inter-batch delays is floor(M / B), minus one if M is a
\* positive multiple of B; all of them are issued before the final batch
\* starts and none after it.
C2_DelayCount ==
    /\ fetchPc \in {"final", "done"} => delays = ExpectedDelays(Len(names), batchSize)
    /\ fetchPc \in {"batch", "timer"} => delays <= ExpectedDelays(Len(names), batchSize)

\* a list of exactly two full batches has been resolved with one delay
C2_Witness ==
    /\ fetchPc = "done"
    /\ Len(names) = 2 * batchSize
    /\ delays = 1

\* C3: at every point at most batchSize profile lookups are in flight,
\* counting the lookups whose timeout has won while lookupProfile still runs.
C3_InFlightAtMostBatchSize ==
    fetchPc # "off" => Cardinality(InFlight) <= batchSize

\* the batch of the name at position j, counted from 0
BatchOf(j) == (j - 1) \div batchSize

Started(j) == lookup[j] # "unstarted"

\* C18: the batches are the consecutive slices of names of batchSize names,
\* the last one possibly shorter; the lookups of a batch start together, and
\* only when every lookup of every earlier batch has settled, the results of
\* the earlier batches have been tallied and the delay after the batch before
\* it has ended.
C18_BatchesInOrder ==
    /\ fetchPc \in {"batch", "final"} =>
          /\ batch = SubSeq(names, ix - Len(batch) + 1, ix)
          /\ (ix - Len(batch)) % batchSize = 0
          /\ Len(batch) \in 1..batchSize
          /\ fetchPc = "batch" => Len(batch) = batchSize
          /\ fetchPc = "final" => ix = Len(names)
          /\ \A j \in DOMAIN lookup : Started(j) <=> j <= ix
    /\ \A j, h \in DOMAIN lookup :
          /\ (BatchOf(j) = BatchOf(h) /\ Started(j)) => Started(h)
          /\ (BatchOf(j) < BatchOf(h) /\ Started(h)) =>
                /\ lookup[j] \notin {"unstarted", "pending"}
                /\ Len(profiles) + errorCount >= batchSize * BatchOf(h)
                /\ delays >= BatchOf(h)
                /\ ~(fetchPc = "timer" /\ delays = BatchOf(h))

\* the second batch runs: the first was full, one of its lookups timed out,
\* its results are tallied and one delay has passed
C18_Witness ==
    /\ batchSize = 2
    /\ Len(names) = 3
    /\ fetchPc = "final"
    /\ lookup[1] = "timedOut"
    /\ lookup[2] = "resolved"
    /\ lookup[3] = "pending"
    /\ Len(profiles) = 1
    /\ errorCount = 1
    /\ delays = 1

\* C20: once called, fetchNames returns, whether or not any lookupProfile
\* call ever ends, as long as the timers fire.
C20_FetchNamesTerminates == (fetchPc # "idle") ~> (fetchPc = "done")

\* fetchNames has returned and no lookupProfile call has ended
C20_Witness ==
    /\ fetchPc = "done"
    /\ Len(names) = MaxNames
    /\ \A j \in DOMAIN lookup : lookup[j] = "timedOut"
    /\ errorCount = Len(names)

-----------------------------------------------------------------------------
(* Properties of the enumerator.                                            *)

RECURSIVE ConcatPages(_, _)
\* the names of pages 0..n-1 of src, in page order
ConcatPages(src, n) ==
    IF n = 0 THEN <<>> ELSE ConcatPages(src, n - 1) \o PageOf(src, n - 1)

\* the index of the first empty page of src
FirstEmpty(src) ==
    CHOOSE k \in 0..Len(src) :
        /\ PageOf(src, k) = <<>>
        /\ \A j \in 0..(k - 1) : PageOf(src, j) # <<>>

\* C4: with pageCap = N > 0 the enumeration returns names only from pages
\* 0..N-1, in page order, and never requests a page with index >= N.
C4_CapBoundsPages ==
    pagesToFetch > 0 =>
        \A k \in Kinds :
            /\ \A i \in 1..Len(requested[k]) : requested[k][i] < pagesToFetch
            /\ enumPc[k] = "done" =>
                   \E n \in 0..pagesToFetch : priorNames[k] = ConcatPages(source[k], n)

\* a capped enumeration stopped by its cap with non-empty pages left unread
C4_Witness ==
    \E k \in Kinds :
        /\ enumPc[k] = "done"
        /\ pagesToFetch = 1
        /\ Len(source[k]) >= 2
        /\ PageOf(source[k], 0) # <<>>
        /\ PageOf(source[k], 1) # <<>>
        /\ priorNames[k] = PageOf(source[k], 0)

\* C5 as stated: with pageCap = 0 the enumeration returns the empty sequence.
C5_CapZeroReturnsEmpty ==
    \A k \in Kinds : (pagesToFetch = 0 /\ enumPc[k] = "done") => priorNames[k] = <<>>

\* C5 amended: pageCap = 0 means no cap: the enumeration returns the names of
\* every page before the first empty page, in page order.
C5_CapZeroUncapped ==
    \A k \in Kinds :
        (pagesToFetch = 0 /\ enumPc[k] = "done") =>
            priorNames[k] = ConcatPages(source[k], FirstEmpty(source[k]))

\* an enumeration with pageCap = 0 that read every page of a full directory
C5_Witness ==
    \E k \in Kinds :
        /\ pagesToFetch = 0
        /\ enumPc[k] = "done"
        /\ FirstEmpty(source[k]) = MaxPages
        /\ priorNames[k] # <<>>

\* C6 as stated: whatever the cap, the enumeration returns exactly the names
\* of the pages before the first empty page k.
C6_StopsAtFirstEmptyAnyCap ==
    \A k \in Kinds :
        enumPc[k] = "done" => priorNames[k] = ConcatPages(source[k], FirstEmpty(source[k]))

\* the number of pages an enumeration of src under cap reads names from
PagesRead(src, cap) ==
    IF cap > 0 /\ cap < FirstEmpty(src) THEN cap ELSE FirstEmpty(src)

\* C6 amended: the enumeration returns exactly the names of pages 0..k-1, in
\* page order and with duplicates kept, when the cap is 0 or at least k; a
\* cap N with 0 < N < k cuts the result to pages 0..N-1.
C6_StopsAtFirstEmptyOrCap ==
    \A k \in Kinds :
        enumPc[k] = "done" =>
            priorNames[k] = ConcatPages(source[k], PagesRead(source[k], pagesToFetch))

\* an enumeration stopped by an empty page 1, under a cap that allows more,
\* that kept the duplicate on page 0
C6_Witness ==
    \E k \in Kinds :
        /\ enumPc[k] = "done"
        /\ source[k] = <<<<NameA, NameA>>, <<>>>>
        /\ pagesToFetch > 1
        /\ priorNames[k] = <<NameA, NameA>>

\* C17: for each kind the pages requested are 0, 1, 2, ... in order with
\* none skipped or repeated, a page is requested only when the fetch of every
\* page before it has ended, and at most one request is outstanding.
C17_PagesSequential ==
    \A k \in Kinds :
        /\ requested[k] = [i \in 1..Len(requested[k]) |-> i - 1]
        /\ Len(settled[k]) <= Len(requested[k])
        /\ settled[k] = SubSeq(requested[k], 1, Len(settled[k]))
        /\ Len(requested[k]) - Len(settled[k]) = (IF enumPc[k] = "fetching" THEN 1 ELSE 0)

\* the third page of a kind is outstanding and the first two have arrived
C17_Witness ==
    \E k \in Kinds :
        /\ requested[k] = <<0, 1, 2>>
        /\ settled[k] = <<0, 1>>
        /\ enumPc[k] = "fetching"

-----------------------------------------------------------------------------
(* Properties of the sanitizer.                                             *)

RECURSIVE NoUnsafeKey(_)
\* no key of value, at any depth, contains '.' or starts with '$'
NoUnsafeKey(value) ==
    value.t = "object" =>
        \A i \in 1..Len(value.e) :
            /\ ~includesDot(value.e[i].k)
            /\ ~startsWithSigil(value.e[i].k)
            /\ NoUnsafeKey(value.e[i].val)

HasUnsafeKey(value) == ~NoUnsafeKey(value)

\* C7: after cleanEntry no key at any nesting depth contains '.' or starts
\* with '$'.
C7_SanitizedKeysSafe == cleanPc # "input" => NoUnsafeKey(cleaned)

\* an input with an unsafe key at the top and another one level down has
\* been sanitized
C7_Witness ==
    /\ cleanPc = "cleaned"
    /\ \E i \in 1..Len(entry.e) :
          /\ startsWithSigil(entry.e[i].k)
          /\ includesDot(entry.e[i].k)
          /\ entry.e[i].val.t = "object"
          /\ HasUnsafeKey(entry.e[i].val)

\* the key under which cleanEntry means to leave the value of key
renamedKey(key) ==
    LET k1 == IF includesDot(key) THEN replaceDots(key) ELSE key
    IN  IF startsWithSigil(k1) THEN underscoreSlice(k1) ELSE k1

RECURSIVE Preserved(_, _)
\* out has, at every level, as many keys as in, and every value of in sits
\* under exactly one key of out: its own key or its renamed key
Preserved(in, out) ==
    IF in.t # "object" THEN out = in
    ELSE /\ out.t = "object"
         /\ Len(out.e) = Len(in.e)
         /\ \A i \in 1..Len(in.e) :
               Cardinality({j \in 1..Len(out.e) :
                   /\ out.e[j].k \in {in.e[i].k, renamedKey(in.e[i].k)}
                   /\ Preserved(in.e[i].val, out.e[j].val)}) = 1

\* C8: cleanEntry never loses or duplicates a value, also when a renamed
\* key equals a key that already exists at that level.
C8_NoValueLost == cleanPc # "input" => Preserved(entry, cleaned)

\* C9: cleanEntry is idempotent: cleaning a cleaned record changes nothing.
C9_Idempotent == cleanPc = "twice" => twice = cleaned

\* a record that the first pass did change has been sanitized twice
C9_Witness ==
    /\ cleanPc = "twice"
    /\ cleaned # entry
    /\ HasUnsafeKey(entry)
    /\ \E i \in 1..Len(entry.e) : entry.e[i].val.t = "object" /\ HasUnsafeKey(entry.e[i].val)

====
